---- MODULE Spec2Model ----
(***************************************************************************)
(* Model of the gerrit resource's authManager (the secret material broker) *)
(* and of the `in` operation that uses it.                                 *)
(*                                                                         *)
(* Go strings are sequences of characters; a "character" of the model is   *)
(* one atomic token ("=", ";", "\n", a name, a digit string).  The empty   *)
(* Go string "" is the empty sequence.                                     *)
(***************************************************************************)
EXTENDS Integers, Sequences, FiniteSets, TLC

VARIABLES
    src,         \* the Source configuration of the request
    params,      \* the InParams of the request
    rev,         \* the RevisionInfo the review server returns
    am,          \* the authManager struct
    disk,        \* the filesystem: existing temp-file path -> contents
    nextFile,    \* number of the next temp file ioutil.TempFile creates
    agents,      \* pids of the live ssh-agent processes
    nextPid,     \* pid the next started ssh-agent gets
    env,         \* the process environment: variable name -> value
    produced,    \* every path a temp file was created at, since construction
    started,     \* every agent pid started, since construction
    keyed,       \* pids of the agents ssh-add has given the key to
    rmLog,       \* paths os.Remove was called on, in order
    rmFailed,    \* TRUE once an os.Remove has failed
    killLog,     \* environments `ssh-agent -k` was run with, in order
    lastOp,      \* the broker method that ran last
    prevOp,      \* the broker method that ran before it
    authRet,     \* what the last gerritAuth() returned
    cfgRet,      \* what the last gitConfigArgs() returned
    failed,      \* the system calls that failed during the last broker method
    nfail,       \* system calls that have failed so far
    calls,       \* broker method calls made so far
    cleanups,    \* cleanup() executions so far
    pc,          \* the statement of `in` that runs next
    inErr,       \* the error `in` returns
    cmds,        \* the argument lists execGit was called with, in order
    gitErrs,     \* the error each of those execGit calls returned
    fetchUrl,    \* the url resolveFetchUrlRef returned
    fetchRef,    \* the ref resolveFetchUrlRef returned
    configArgs,  \* the map gitConfigArgs() returned to `in`
    pending,     \* keys of configArgs the range loop has not visited yet
    skipped,     \* number of SkipSubmodules entries the loop has visited
    written      \* the files `in` has written into the target directory

\* the request and the position and results of `in`
inVars == <<src, params, rev, pc, inErr, cmds, gitErrs, fetchUrl, fetchRef, configArgs,
            pending, skipped, written>>

brokerVars == <<am, disk, nextFile, agents, nextPid, env, produced, started,
                keyed, rmLog, rmFailed, killLog, failed>>

----------------------------------------------------------------------------
(* Bounds *)

\* broker method calls in one run of the broker specification
MaxCalls == 3
\* system calls that fail in one run
MaxFailures == 2

----------------------------------------------------------------------------
(* Strings *)

EmptyStr == <<>>

\* strconv of a small number: the digits as one token
NumStr(n) == <<"0", "1", "2", "3", "4", "5", "6", "7", "8", "9">>[n + 1]

\* strings.Contains(s, c) for a one-character c
Contains(s, c) == \E i \in 1..Len(s) : s[i] = c

\* position of the first c in s, 0 if there is none
RECURSIVE IndexFrom(_, _, _)
IndexFrom(s, c, i) ==
    IF i > Len(s) THEN 0
    ELSE IF s[i] = c THEN i
    ELSE IndexFrom(s, c, i + 1)

Index(s, c) == IndexFrom(s, c, 1)

\* strings.Split(s, c) for a one-character separator c: always at least one part
RECURSIVE Split(_, _)
Split(s, c) ==
    LET i == Index(s, c) IN
    IF i = 0 THEN <<s>>
    ELSE <<SubSeq(s, 1, i - 1)>> \o Split(SubSeq(s, i + 1, Len(s)), c)

----------------------------------------------------------------------------
(* Configuration values (the Source fields the authManager copies) *)

CookiesSet == {EmptyStr, <<"c">>}
UsernameSet == {EmptyStr, <<"u">>}
PasswordSet == {EmptyStr, <<"p">>}
PrivateKeySet == {EmptyStr, <<"k">>}
PassphraseSet == {EmptyStr, <<"pp">>}

\* a Go error value; Nil is the nil error
Nil == "nil"

\* The system calls that can fail.  An io value is the set of the ones that
\* fail during one broker method call.
FileSteps == {"tempfile", "chmod", "write"}
AgentSteps == {"ssh-agent", "executable", "ssh-add"}
CookieSteps == {"cookies-tempfile", "cookies-write"}
CreateSteps == FileSteps \cup AgentSteps \cup CookieSteps
RemoveSteps == {"remove-cookies", "remove-creds"}

----------------------------------------------------------------------------
(* The world a broker method reads and changes *)

World == [am |-> am, disk |-> disk, nextFile |-> nextFile, agents |-> agents,
          nextPid |-> nextPid, env |-> env, produced |-> produced,
          started |-> started, keyed |-> keyed, rmLog |-> rmLog, rmFailed |-> rmFailed,
          killLog |-> killLog, failed |-> {}]

\* a system call of the step `step` ran and failed
Fail(w, step) == [w EXCEPT !.failed = w.failed \cup {step}]

\* ioutil.TempFile(dir, pattern): a fresh, empty file with a unique name
TempName(pattern, n) == <<"/tmp/", pattern, NumStr(n)>>

CreateFile(w, name) ==
    [w EXCEPT !.disk = [p \in DOMAIN w.disk \cup {name} |->
                           IF p = name THEN EmptyStr ELSE w.disk[p]],
              !.nextFile = w.nextFile + 1,
              !.produced = w.produced \cup {name}]

WriteFile(w, name, contents) == [w EXCEPT !.disk[name] = contents]

\* os.Remove(path): on failure the file stays
RemoveFile(w, path, step, io) ==
    LET gone == step \notin io /\ path \in DOMAIN w.disk
        w1 == [w EXCEPT !.rmLog = Append(w.rmLog, path)]
    IN  IF gone
        THEN [w1 EXCEPT !.disk = [p \in DOMAIN w.disk \ {path} |-> w.disk[p]]]
        ELSE [Fail(w1, step) EXCEPT !.rmFailed = TRUE]

\* os.Setenv(name, value)
Setenv(e, name, value) ==
    [n \in DOMAIN e \cup {name} |-> IF n = name THEN value ELSE e[n]]

----------------------------------------------------------------------------
(* newAuthManager *)

newAuthManager(source) ==
    [cookies |-> source.Cookies,
     cookiesPath_ |-> EmptyStr,
     username |-> source.Username,
     password |-> source.Password,
     digest |-> source.DigestAuth,
     sshPrivateKeyPassphrase |-> source.PrivateKeyPassphrase,
     sshPrivateKey |-> source.PrivateKey,
     credsPath_ |-> EmptyStr,
     sshAgentVars |-> <<>>]

----------------------------------------------------------------------------
(* writeAuthTempFile and storePrivateKey *)

\* On a failed write the name of the (empty) file is still returned.
writeAuthTempFile(w, suffix, contents, io) ==
    LET pre == IF suffix = "concourse-gerrit-cookies" THEN "cookies-" ELSE "" IN
    IF (pre \o "tempfile") \in io
    THEN [w |-> Fail(w, pre \o "tempfile"), path |-> EmptyStr, err |-> "tempfile"]
    ELSE LET name == TempName(suffix, w.nextFile)
             w1 == CreateFile(w, name)
         IN  IF (pre \o "write") \in io
             THEN [w |-> Fail(w1, pre \o "write"), path |-> name, err |-> "write"]
             ELSE [w |-> WriteFile(w1, name, contents), path |-> name, err |-> Nil]

\* The error of os.Chmod is overwritten by the result of the write that
\* follows, so a failed chmod changes nothing that is returned.  A failed write
\* truncates the file and returns its name together with the error.
storePrivateKey(w, privateKey, io) ==
    IF privateKey = EmptyStr THEN [w |-> w, path |-> EmptyStr, err |-> Nil]
    ELSE IF "tempfile" \in io
    THEN [w |-> Fail(w, "tempfile"), path |-> EmptyStr, err |-> "Error storing private key"]
    ELSE LET name == TempName("gerrit-resource-private-key-", w.nextFile)
             w0 == CreateFile(w, name)
             w1 == IF "chmod" \in io THEN Fail(w0, "chmod") ELSE w0
         IN  IF "write" \in io
             THEN [w |-> Fail(w1, "write"), path |-> name,
                   err |-> "Error writing to private key file"]
             ELSE [w |-> WriteFile(w1, name, privateKey), path |-> name, err |-> Nil]

----------------------------------------------------------------------------
(* The ssh agent *)

\* What `ssh-agent -s` prints for the agent it started with this pid.
AgentOutput(pid) ==
    <<"SSH_AUTH_SOCK", "=", "/tmp/agent.", NumStr(pid), ";",
      " export SSH_AUTH_SOCK", ";", "\n",
      "SSH_AGENT_PID", "=", NumStr(pid), ";",
      " export SSH_AGENT_PID", ";", "\n",
      "echo Agent pid ", NumStr(pid), ";", "\n">>

\* The loop over the lines of the agent's output: the first ";"-separated
\* part of a line is kept when it contains "=".
RECURSIVE ParseVars(_)
ParseVars(lines) ==
    IF lines = <<>> THEN <<>>
    ELSE LET assignment == Split(Head(lines), ";")
         IN  (IF Len(assignment) > 0 /\ Contains(assignment[1], "=")
              THEN <<assignment[1]>> ELSE <<>>) \o ParseVars(Tail(lines))

\* os.Setenv(envVar[0], envVar[1]) for every kept assignment
RECURSIVE SetenvAll(_, _)
SetenvAll(e, vars) ==
    IF vars = <<>> THEN e
    ELSE LET envVar == Split(Head(vars), "=")
         IN  SetenvAll(IF Len(envVar) >= 2 THEN Setenv(e, envVar[1], envVar[2]) ELSE e,
                       Tail(vars))

\* The value a child process sees for `name` when started with
\* append(os.Environ(), vars...): the last assignment of the list wins.
RECURSIVE LookupEnv(_, _, _)
LookupEnv(e, vars, name) ==
    IF vars = <<>> THEN (IF <<name>> \in DOMAIN e THEN e[<<name>>] ELSE EmptyStr)
    ELSE LET last == vars[Len(vars)]
             i == Index(last, "=")
         IN  IF i > 0 /\ SubSeq(last, 1, i - 1) = <<name>>
             THEN SubSeq(last, i + 1, Len(last))
             ELSE LookupEnv(e, SubSeq(vars, 1, Len(vars) - 1), name)

\* `ssh-agent -k` run with the recorded variables kills the agent whose pid
\* SSH_AGENT_PID names; the result of cmd.Run() is not looked at.
sshKillAgent(w) ==
    IF Len(w.am.sshAgentVars) > 0
    THEN LET pid == LookupEnv(w.env, w.am.sshAgentVars, "SSH_AGENT_PID")
         IN  [w EXCEPT !.agents = w.agents \ {pid},
                       !.killLog = Append(w.killLog, w.am.sshAgentVars),
                       !.am.sshAgentVars = <<>>]
    ELSE w

\* sshAddKey declares a second err inside the if block (credsPath, err := ...),
\* so the final `return err` returns the outer err, which is nil: a failure of
\* ssh-add is not returned.  The early returns inside the block return the
\* inner err.
sshAddKey(w, io) ==
    IF w.am.sshPrivateKey # EmptyStr
    THEN LET k == storePrivateKey(w, w.am.sshPrivateKey, io) IN
         IF k.err # Nil THEN [w |-> k.w, err |-> k.err]
         ELSE LET w1 == [k.w EXCEPT !.am.credsPath_ = k.path] IN
              IF "ssh-agent" \in io THEN [w |-> Fail(w1, "ssh-agent"), err |-> "ssh-agent"]
              ELSE LET pid == w1.nextPid
                       vars == ParseVars(Split(AgentOutput(pid), "\n"))
                       w2 == [w1 EXCEPT !.agents = w1.agents \cup {<<NumStr(pid)>>},
                                        !.started = w1.started \cup {<<NumStr(pid)>>},
                                        !.nextPid = pid + 1,
                                        !.env = SetenvAll(w1.env, vars),
                                        !.am.sshAgentVars = vars]
                   IN  IF "executable" \in io
                       THEN [w |-> Fail(w2, "executable"), err |-> "executable"]
                       ELSE IF "ssh-add" \in io
                       THEN [w |-> Fail(w2, "ssh-add"), err |-> Nil]
                       ELSE [w |-> [w2 EXCEPT !.keyed = w2.keyed \cup {<<NumStr(pid)>>}],
                             err |-> Nil]
    ELSE [w |-> w, err |-> Nil]

----------------------------------------------------------------------------
(* The lazily created files *)

\* cookiesPath that writes a new file on every call
cookiesPathFresh(w, io) ==
    IF w.am.cookies = EmptyStr THEN [w |-> w, path |-> EmptyStr, err |-> Nil]
    ELSE LET f == writeAuthTempFile(w, "concourse-gerrit-cookies", w.am.cookies, io)
         IN  [w |-> [f.w EXCEPT !.am.cookiesPath_ = f.path], path |-> f.path, err |-> f.err]

cookiesPath(w, io) ==
    IF w.am.cookies = EmptyStr THEN [w |-> w, path |-> EmptyStr, err |-> Nil]
    ELSE IF w.am.cookiesPath_ = EmptyStr
    THEN LET f == writeAuthTempFile(w, "concourse-gerrit-cookies", w.am.cookies, io)
         IN  [w |-> [f.w EXCEPT !.am.cookiesPath_ = f.path], path |-> f.path, err |-> f.err]
    ELSE [w |-> w, path |-> w.am.cookiesPath_, err |-> Nil]

\* the NUL character
NUL == "NUL"

\* ContainsAny that looks for the NUL character only
ContainsNulOnly(s) == Contains(s, NUL)

\* strings.ContainsAny(s, NUL and newline)
ContainsAnyNulNl(s) == Contains(s, NUL) \/ Contains(s, "\n")

\* the two fields with no newline after the password
CredsContentsUnterminated(username, password) ==
    <<"username", "=">> \o username \o <<"\n", "password", "=">> \o password

CredsContents(username, password) ==
    <<"username", "=">> \o username \o <<"\n", "password", "=">> \o password \o <<"\n">>

credsPath(w, io) ==
    IF w.am.username = EmptyStr THEN [w |-> w, path |-> EmptyStr, err |-> Nil]
    ELSE IF w.am.credsPath_ = EmptyStr /\ w.am.sshPrivateKey = EmptyStr
    THEN IF ContainsAnyNulNl(w.am.username) \/ ContainsAnyNulNl(w.am.password)
         THEN [w |-> w, path |-> EmptyStr,
               err |-> "invalid character in username or password"]
         ELSE LET f == writeAuthTempFile(w, "concourse-gerrit-creds",
                                         CredsContents(w.am.username, w.am.password), io)
              IN  [w |-> [f.w EXCEPT !.am.credsPath_ = f.path], path |-> f.path, err |-> f.err]
    ELSE [w |-> w, path |-> w.am.credsPath_, err |-> Nil]

----------------------------------------------------------------------------
(* gerritAuth, gitConfigArgs, cleanup *)

Auth(kind, username, password, path) ==
    [kind |-> kind, username |-> username, password |-> password, path |-> path]

NoAuth == Auth("NoAuth", EmptyStr, EmptyStr, EmptyStr)
NilAuth == Auth("nil", EmptyStr, EmptyStr, EmptyStr)

\* gerritAuth with the cookies looked at before the username
gerritAuthCookiesFirst(w, io) ==
    IF w.am.cookies # EmptyStr
    THEN LET c == cookiesPath(w, io) IN
         IF c.err # Nil THEN [w |-> c.w, auth |-> NilAuth, err |-> c.err]
         ELSE [w |-> c.w, auth |-> Auth("GitCookieFile", EmptyStr, EmptyStr, c.path),
               err |-> Nil]
    ELSE IF w.am.username # EmptyStr
    THEN [w |-> w,
          auth |-> Auth(IF w.am.digest THEN "Digest" ELSE "Basic",
                        w.am.username, w.am.password, EmptyStr),
          err |-> Nil]
    ELSE IF w.am.password # EmptyStr
    THEN [w |-> w, auth |-> NilAuth, err |-> "Password specified but username is blank"]
    ELSE [w |-> w, auth |-> NoAuth, err |-> Nil]

\* gerritAuth with the ssh key taking the place of the REST credentials
gerritAuthKeyFirst(w, io) ==
    IF w.am.sshPrivateKey # EmptyStr
    THEN [w |-> w, auth |-> NoAuth, err |-> Nil]
    ELSE IF w.am.username # EmptyStr
    THEN [w |-> w,
          auth |-> Auth(IF w.am.digest THEN "Digest" ELSE "Basic",
                        w.am.username, w.am.password, EmptyStr),
          err |-> Nil]
    ELSE IF w.am.password # EmptyStr
    THEN [w |-> w, auth |-> NilAuth, err |-> "Password specified but username is blank"]
    ELSE IF w.am.cookies # EmptyStr
    THEN LET c == cookiesPath(w, io) IN
         IF c.err # Nil THEN [w |-> c.w, auth |-> NilAuth, err |-> c.err]
         ELSE [w |-> c.w, auth |-> Auth("GitCookieFile", EmptyStr, EmptyStr, c.path),
               err |-> Nil]
    ELSE [w |-> w, auth |-> NoAuth, err |-> Nil]

gerritAuth(w, io) ==
    IF w.am.username # EmptyStr
    THEN IF w.am.digest
         THEN [w |-> w, auth |-> Auth("Digest", w.am.username, w.am.password, EmptyStr),
               err |-> Nil]
         ELSE [w |-> w, auth |-> Auth("Basic", w.am.username, w.am.password, EmptyStr),
               err |-> Nil]
    ELSE IF w.am.password # EmptyStr
    THEN [w |-> w, auth |-> NilAuth, err |-> "Password specified but username is blank"]
    ELSE IF w.am.cookies # EmptyStr
    THEN LET c == cookiesPath(w, io) IN
         IF c.err # Nil THEN [w |-> c.w, auth |-> NilAuth, err |-> c.err]
         ELSE [w |-> c.w, auth |-> Auth("GitCookieFile", EmptyStr, EmptyStr, c.path),
               err |-> Nil]
    ELSE [w |-> w, auth |-> NoAuth, err |-> Nil]

EmptyArgs == [k \in {} |-> EmptyStr]

SetArg(args, key, value) ==
    [k \in DOMAIN args \cup {key} |-> IF k = key THEN value ELSE args[k]]

SshCommand == <<"ssh", " -F /dev/null", " -o StrictHostKeyChecking=no">>

\* gitConfigArgs with the cookies as a third alternative: no cookie entry when
\* a key or a username has given an entry
gitConfigArgsExclusive(w, io) ==
    IF w.am.sshPrivateKey # EmptyStr
    THEN [w |-> sshAddKey(w, io).w,
          args |-> SetArg(EmptyArgs, "core.sshCommand", SshCommand),
          err |-> Nil]
    ELSE IF w.am.username # EmptyStr
    THEN LET c == credsPath(w, io) IN
         IF c.err # Nil THEN [w |-> c.w, args |-> EmptyArgs, err |-> c.err]
         ELSE [w |-> c.w,
               args |-> SetArg(EmptyArgs, "credential.helper", <<"!cat ">> \o c.path),
               err |-> Nil]
    ELSE IF w.am.cookies # EmptyStr
    THEN LET c == cookiesPath(w, io) IN
         IF c.err # Nil THEN [w |-> c.w, args |-> EmptyArgs, err |-> c.err]
         ELSE [w |-> c.w, args |-> SetArg(EmptyArgs, "http.cookieFile", c.path),
               err |-> Nil]
    ELSE [w |-> w, args |-> EmptyArgs, err |-> Nil]

\* The result of am.sshAddKey() is dropped.
gitConfigArgs(w, io) ==
    LET first ==
            IF w.am.sshPrivateKey # EmptyStr
            THEN [w |-> sshAddKey(w, io).w,
                  args |-> SetArg(EmptyArgs, "core.sshCommand", SshCommand),
                  err |-> Nil]
            ELSE IF w.am.username # EmptyStr
            THEN LET c == credsPath(w, io) IN
                 IF c.err # Nil THEN [w |-> c.w, args |-> EmptyArgs, err |-> c.err]
                 ELSE [w |-> c.w,
                       args |-> SetArg(EmptyArgs, "credential.helper", <<"!cat ">> \o c.path),
                       err |-> Nil]
            ELSE [w |-> w, args |-> EmptyArgs, err |-> Nil]
    IN  IF first.err # Nil THEN first
        ELSE IF first.w.am.cookies # EmptyStr
        THEN LET c == cookiesPath(first.w, io) IN
             IF c.err # Nil THEN [w |-> c.w, args |-> EmptyArgs, err |-> c.err]
             ELSE [w |-> c.w, args |-> SetArg(first.args, "http.cookieFile", c.path),
                   err |-> Nil]
        ELSE first

\* cleanup that removes the files and keeps their recorded paths
cleanupKeepsPaths(w, io) ==
    LET w1 == IF w.am.cookiesPath_ # EmptyStr
              THEN RemoveFile(w, w.am.cookiesPath_, "remove-cookies", io)
              ELSE w
        w2 == IF w1.am.credsPath_ # EmptyStr
              THEN RemoveFile(w1, w1.am.credsPath_, "remove-creds", io)
              ELSE w1
    IN  sshKillAgent(w2)

\* cleanup that returns at the first removal that fails
cleanupStopsOnFailure(w, io) ==
    LET w1 == IF w.am.cookiesPath_ # EmptyStr
              THEN [RemoveFile(w, w.am.cookiesPath_, "remove-cookies", io)
                        EXCEPT !.am.cookiesPath_ = EmptyStr]
              ELSE w
        w2 == IF w1.am.credsPath_ # EmptyStr
              THEN [RemoveFile(w1, w1.am.credsPath_, "remove-creds", io)
                        EXCEPT !.am.credsPath_ = EmptyStr]
              ELSE w1
    IN  IF w1.failed # {} THEN w1
        ELSE IF w2.failed # {} THEN w2
        ELSE sshKillAgent(w2)

\* The loop clears both recorded paths, so the second removal of the cookies
\* file (after the loop) never runs.
cleanup(w, io) ==
    LET w1 == IF w.am.cookiesPath_ # EmptyStr
              THEN [RemoveFile(w, w.am.cookiesPath_, "remove-cookies", io)
                        EXCEPT !.am.cookiesPath_ = EmptyStr]
              ELSE w
        w2 == IF w1.am.credsPath_ # EmptyStr
              THEN [RemoveFile(w1, w1.am.credsPath_, "remove-creds", io)
                        EXCEPT !.am.credsPath_ = EmptyStr]
              ELSE w1
        w3 == IF w2.am.cookiesPath_ # EmptyStr
              THEN [RemoveFile(w2, w2.am.cookiesPath_, "remove-cookies", io)
                        EXCEPT !.am.cookiesPath_ = EmptyStr]
              ELSE w2
    IN  sshKillAgent(w3)

----------------------------------------------------------------------------
(* The broker on its own: any sequence of calls of its three methods *)

\* a *bool field: nil, or a pointer to true or to false
BoolPtrs == {"nil", "true", "false"}

\* a *[]string field
NilStrings == [isNil |-> TRUE, elems |-> <<>>]
Strings(elems) == [isNil |-> FALSE, elems |-> elems]

NoRevision == [Ref |-> EmptyStr, Fetch |-> <<>>]

\* The broker reads the authentication fields of the Source only.
Sources ==
    [Cookies : CookiesSet, Username : UsernameSet, Password : PasswordSet,
     DigestAuth : BOOLEAN, PrivateKey : PrivateKeySet,
     PrivateKeyPassphrase : PassphraseSet,
     PrivateKeyUser : {EmptyStr}, Fetch : {"nil"}, FetchProtocol : {""},
     FetchUrl : {EmptyStr}, SkipSubmodules : {<<>>}, Depth : {0}]

InIdle ==
    /\ pc = "idle"
    /\ inErr = Nil
    /\ cmds = <<>>
    /\ gitErrs = <<>>
    /\ fetchUrl = EmptyStr
    /\ fetchRef = EmptyStr
    /\ configArgs = EmptyArgs
    /\ pending = {}
    /\ skipped = 0
    /\ written = {}

Init ==
    /\ src \in Sources
    /\ params = [Fetch |-> "nil", Sparse |-> NilStrings]
    /\ rev = NoRevision
    /\ InIdle
    /\ am = newAuthManager(src)
    /\ disk = <<>>
    /\ nextFile = 1
    /\ agents = {}
    /\ nextPid = 1
    /\ env = <<>>
    /\ produced = {}
    /\ started = {}
    /\ keyed = {}
    /\ rmLog = <<>>
    /\ rmFailed = FALSE
    /\ killLog = <<>>
    /\ failed = {}
    /\ lastOp = "newAuthManager"
    /\ prevOp = "none"
    /\ authRet = [auth |-> NilAuth, err |-> Nil]
    /\ cfgRet = [args |-> EmptyArgs, err |-> Nil]
    /\ nfail = 0
    /\ calls = 0
    /\ cleanups = 0

\* the world after a broker method
Becomes(w) ==
    /\ am' = w.am
    /\ disk' = w.disk
    /\ nextFile' = w.nextFile
    /\ agents' = w.agents
    /\ nextPid' = w.nextPid
    /\ env' = w.env
    /\ produced' = w.produced
    /\ started' = w.started
    /\ keyed' = w.keyed
    /\ rmLog' = w.rmLog
    /\ rmFailed' = w.rmFailed
    /\ killLog' = w.killLog
    /\ failed' = w.failed
    /\ nfail' = nfail + Cardinality(w.failed)

\* The outcomes of the system calls of one method call are drawn from the sets
\* of failing steps; a set is taken when each of its failures happens.
Outcomes(steps) == {io \in SUBSET steps : nfail + Cardinality(io) <= MaxFailures}

GerritAuth ==
    /\ calls < MaxCalls
    /\ \E io \in Outcomes(CookieSteps) :
         \E r \in {gerritAuth(World, io)} :
         /\ r.w.failed = io
         /\ Becomes(r.w)
         /\ authRet' = [auth |-> r.auth, err |-> r.err]
    /\ lastOp' = "gerritAuth"
    /\ prevOp' = lastOp
    /\ calls' = calls + 1
    /\ UNCHANGED <<cfgRet, cleanups, inVars>>

GitConfigArgs ==
    /\ calls < MaxCalls
    /\ \E io \in Outcomes(CreateSteps) :
         \E r \in {gitConfigArgs(World, io)} :
         /\ r.w.failed = io
         /\ Becomes(r.w)
         /\ cfgRet' = [args |-> r.args, err |-> r.err]
    /\ lastOp' = "gitConfigArgs"
    /\ prevOp' = lastOp
    /\ calls' = calls + 1
    /\ UNCHANGED <<authRet, cleanups, inVars>>

Cleanup ==
    /\ calls < MaxCalls
    /\ \E io \in Outcomes(RemoveSteps) :
         \E w \in {cleanup(World, io)} :
         /\ w.failed = io
         /\ Becomes(w)
    /\ lastOp' = "cleanup"
    /\ prevOp' = lastOp
    /\ calls' = calls + 1
    /\ cleanups' = cleanups + 1
    /\ UNCHANGED <<authRet, cfgRet, inVars>>

Next == GerritAuth \/ GitConfigArgs \/ Cleanup

vars == <<src, params, rev, am, disk, nextFile, agents, nextPid, env, produced,
          started, keyed, rmLog, rmFailed, killLog, failed, nfail, lastOp, prevOp,
          authRet, cfgRet, calls, cleanups, pc, inErr, cmds, gitErrs, fetchUrl, fetchRef,
          configArgs, pending, skipped, written>>

Spec == Init /\ [][Next]_vars

----------------------------------------------------------------------------
(* The broker with user names and passwords that hold a newline or a NUL *)

Newline == "\n"

CredsUsernameSet == UsernameSet \cup {<<"u", Newline>>}
CredsPasswordSet == PasswordSet \cup {<<NUL, "p">>}

CredsSources ==
    [Cookies : CookiesSet, Username : CredsUsernameSet, Password : CredsPasswordSet,
     DigestAuth : BOOLEAN, PrivateKey : PrivateKeySet,
     PrivateKeyPassphrase : {EmptyStr},
     PrivateKeyUser : {EmptyStr}, Fetch : {"nil"}, FetchProtocol : {""},
     FetchUrl : {EmptyStr}, SkipSubmodules : {<<>>}, Depth : {0}]

InitCreds ==
    /\ src \in CredsSources
    /\ params = [Fetch |-> "nil", Sparse |-> NilStrings]
    /\ rev = NoRevision
    /\ InIdle
    /\ am = newAuthManager(src)
    /\ disk = <<>>
    /\ nextFile = 1
    /\ agents = {}
    /\ nextPid = 1
    /\ env = <<>>
    /\ produced = {}
    /\ started = {}
    /\ keyed = {}
    /\ rmLog = <<>>
    /\ rmFailed = FALSE
    /\ killLog = <<>>
    /\ failed = {}
    /\ lastOp = "newAuthManager"
    /\ prevOp = "none"
    /\ authRet = [auth |-> NilAuth, err |-> Nil]
    /\ cfgRet = [args |-> EmptyArgs, err |-> Nil]
    /\ nfail = 0
    /\ calls = 0
    /\ cleanups = 0

SpecCreds == InitCreds /\ [][Next]_vars

----------------------------------------------------------------------------
(* resolveFetchUrlRef and fetchFlags *)

\* a Go string literal of one token
S(x) == <<x>>

\* a test for the token of prefix anywhere in s
HasToken(s, prefix) == Contains(s, prefix[1])

\* strings.HasPrefix(s, prefix)
HasPrefix(s, prefix) == Len(s) >= Len(prefix) /\ SubSeq(s, 1, Len(prefix)) = prefix

\* strings.SplitN: the parts without their separators
RECURSIVE SplitN(_, _, _)
SplitN(s, sep, n) ==
    LET i == Index(s, sep) IN
    IF n = 1 \/ i = 0 THEN <<s>>
    ELSE <<SubSeq(s, 1, i - 1)>> \o SplitN(SubSeq(s, i + 1, Len(s)), sep, n - 1)

\* strings.SplitAfterN(s, sep, n) for a one-token sep and n > 0: at most n
\* parts, each but the last ending with sep
RECURSIVE SplitAfterN(_, _, _)
SplitAfterN(s, sep, n) ==
    LET i == Index(s, sep) IN
    IF n = 1 \/ i = 0 THEN <<s>>
    ELSE <<SubSeq(s, 1, i)>> \o SplitAfterN(SubSeq(s, i + 1, Len(s)), sep, n - 1)

\* the default protocols in the other order
anonymousFirst == <<"anonymous http", "http">>

defaultFetchProtocols == <<"http", "anonymous http">>

\* the first of protos that is a key of fetch, "" if none is
RECURSIVE FirstPresent(_, _)
FirstPresent(protos, fetch) ==
    IF protos = <<>> THEN ""
    ELSE IF Head(protos) \in DOMAIN fetch THEN Head(protos)
    ELSE FirstPresent(Tail(protos), fetch)

\* resolveFetchUrlRef with a requested protocol that is looked up although a
\* fetch url is set (protocolFirst), or that gives way to the default
\* protocols when the revision has no entry for it (fallsBack)
resolveVariant(source, revision, fallsBack, protocolFirst) ==
    LET start == source.FetchUrl
        parts == SplitAfterN(start, "ssh://", 2)
        url == IF source.PrivateKeyUser # EmptyStr
               THEN parts[1] \o source.PrivateKeyUser \o S("@") \o parts[2]
               ELSE start
        fetchProtocol ==
            IF source.FetchProtocol = ""
               \/ (fallsBack /\ source.FetchProtocol \notin DOMAIN revision.Fetch)
            THEN FirstPresent(defaultFetchProtocols, revision.Fetch)
            ELSE source.FetchProtocol
    IN  IF source.PrivateKeyUser # EmptyStr /\ ~HasPrefix(start, S("ssh://"))
        THEN [url |-> EmptyStr, ref |-> EmptyStr, err |-> "FetchUrl is not an ssh url"]
        ELSE IF url = EmptyStr \/ (protocolFirst /\ source.FetchProtocol # "")
        THEN IF fetchProtocol \in DOMAIN revision.Fetch
             THEN [url |-> revision.Fetch[fetchProtocol].URL,
                   ref |-> revision.Fetch[fetchProtocol].Ref, err |-> Nil]
             ELSE [url |-> url, ref |-> revision.Ref,
                   err |-> "no fetch info for protocol " \o fetchProtocol]
        ELSE [url |-> url, ref |-> revision.Ref, err |-> Nil]

resolveFallsBack(source, revision) == resolveVariant(source, revision, TRUE, FALSE)

resolveProtocolFirst(source, revision) == resolveVariant(source, revision, FALSE, TRUE)

\* resolveFetchUrlRef with no error for a protocol the revision has no entry for
resolveSilent(source, revision) ==
    LET r == resolveVariant(source, revision, FALSE, FALSE) IN
    IF source.PrivateKeyUser = EmptyStr /\ r.url = EmptyStr
    THEN [r EXCEPT !.err = Nil]
    ELSE r

\* the number of parts SplitAfterN is asked for
SplitParts == 2

resolveFetchUrlRef(source, revision) ==
    LET start == source.FetchUrl
        parts == SplitAfterN(start, "ssh://", SplitParts)
        url == IF source.PrivateKeyUser # EmptyStr
               THEN parts[1] \o source.PrivateKeyUser \o S("@") \o parts[2]
               ELSE start
        fetchProtocol == IF source.FetchProtocol = ""
                         THEN FirstPresent(defaultFetchProtocols, revision.Fetch)
                         ELSE source.FetchProtocol
    IN  IF source.PrivateKeyUser # EmptyStr /\ ~HasPrefix(start, S("ssh://"))
        THEN [url |-> EmptyStr, ref |-> EmptyStr, err |-> "FetchUrl is not an ssh url"]
        ELSE IF source.PrivateKeyUser # EmptyStr /\ Len(parts) # 2
        THEN [url |-> EmptyStr, ref |-> EmptyStr, err |-> "Unable to split fetchUrl"]
        ELSE IF url = EmptyStr
        THEN IF fetchProtocol \in DOMAIN revision.Fetch
             THEN [url |-> revision.Fetch[fetchProtocol].URL,
                   ref |-> revision.Fetch[fetchProtocol].Ref, err |-> Nil]
             ELSE [url |-> url, ref |-> revision.Ref,
                   err |-> "no fetch info for protocol " \o fetchProtocol]
        ELSE [url |-> url, ref |-> revision.Ref, err |-> Nil]

\* fetchFlags that appends the format string itself
fetchFlagsUnformatted(source, flags) ==
    IF source.Depth > 0
    THEN Append(flags, <<"--depth=", "%v">>)
    ELSE flags

fetchFlags(source, flags) ==
    IF source.Depth > 0
    THEN Append(flags, <<"--depth=", NumStr(source.Depth)>>)
    ELSE flags

----------------------------------------------------------------------------
(* The `in` operation, statement by statement *)

\* req.TargetDir()
Dir == S("dir")

\* a fetch switch that looks at the source setting before the parameter
FetchSwitchSourceFirst(p, source) ==
    IF source.Fetch # "nil" THEN source.Fetch = "true"
    ELSE IF p.Fetch # "nil" THEN p.Fetch = "true"
    ELSE FALSE

\* the effective fetch switch
FetchSwitch(p, source) ==
    IF p.Fetch # "nil" THEN p.Fetch = "true"
    ELSE IF source.Fetch # "nil" THEN source.Fetch = "true"
    ELSE FALSE

\* a return that leaves `in` with no deferred call
ReturnNoDefer(err) == pc' = "done" /\ inErr' = err

\* `return err` after `defer authMan.cleanup()`: the deferred call is still to run
Return(err) == pc' = "return" /\ inErr' = err

\* a git whose error is not looked at by the statement that called it
gitGoesOn(dir, args, ok, next) ==
    /\ cmds' = Append(cmds, <<S("-C"), dir>> \o args)
    /\ gitErrs' = Append(gitErrs, IF ok THEN Nil ELSE "git failed")
    /\ pc' = next
    /\ inErr' = inErr

\* git(dir, args...): execGit is called with -C dir in front of the arguments;
\* a failure comes back as the error "git failed"
git(dir, args, ok, next) ==
    /\ cmds' = Append(cmds, <<S("-C"), dir>> \o args)
    /\ gitErrs' = Append(gitErrs, IF ok THEN Nil ELSE "git failed")
    /\ IF ok THEN pc' = next /\ inErr' = inErr ELSE Return("git failed")

\* gerritClient asks the broker for the REST mechanism and builds the client
gerritClient(w, io, clientOk) ==
    LET r == gerritAuth(w, io) IN
    [w |-> r.w, auth |-> r.auth,
     err |-> IF r.err # Nil THEN r.err ELSE IF clientOk THEN Nil ELSE "client"]

InGerritClient ==
    /\ pc = "gerritClient"
    /\ \E io \in Outcomes(CookieSteps), clientOk \in BOOLEAN :
         \E r \in {gerritClient(World, io, clientOk)} :
         /\ r.w.failed = io
         /\ Becomes(r.w)
         /\ authRet' = [auth |-> r.auth, err |-> IF r.err = "client" THEN Nil ELSE r.err]
         /\ IF r.err # Nil
            THEN Return("error setting up gerrit client")
            ELSE pc' = "getRevision" /\ inErr' = inErr
    /\ lastOp' = "gerritAuth"
    /\ prevOp' = lastOp
    /\ calls' = calls + 1
    /\ UNCHANGED <<src, params, rev, cfgRet, cleanups, cmds, gitErrs, fetchUrl, fetchRef,
                   configArgs, pending, skipped, written>>

\* getVersionChangeRevision, then the fetch switch
InGetRevision ==
    /\ pc = "getRevision"
    /\ \E ok \in BOOLEAN :
         IF ok
         THEN /\ pc' = IF FetchSwitch(params, src) THEN "resolve" ELSE "mkdir"
              /\ inErr' = inErr
         ELSE Return("get revision")
    /\ UNCHANGED <<src, params, rev, brokerVars, nfail, lastOp, prevOp, authRet, cfgRet,
                   calls, cleanups, cmds, gitErrs, fetchUrl, fetchRef, configArgs, pending,
                   skipped, written>>

InResolve ==
    /\ pc = "resolve"
    /\ \E r \in {resolveFetchUrlRef(src, rev)} :
         IF r.err # Nil
         THEN Return("could not resolve fetch args") /\ UNCHANGED <<fetchUrl, fetchRef>>
         ELSE /\ fetchUrl' = r.url
              /\ fetchRef' = r.ref
              /\ pc' = "init"
              /\ inErr' = inErr
    /\ UNCHANGED <<src, params, rev, brokerVars, nfail, lastOp, prevOp, authRet, cfgRet,
                   calls, cleanups, cmds, gitErrs, configArgs, pending, skipped, written>>

\* the statements that are one git command with fixed arguments
GitArgs(at) ==
    CASE at = "init" -> <<S("init")>>
      [] at = "version" -> <<S("--version")>>
      [] at = "color" -> <<S("config"), S("color.ui"), S("always")>>
      [] at = "advice" -> <<S("config"), S("advice.detachedHead"), S("false")>>
      [] at = "remoteAdd" -> <<S("remote"), S("add"), S("origin"), fetchUrl>>
      [] at = "fetch" -> fetchFlags(src, <<S("fetch"), S("origin"), fetchRef>>)
      [] at = "checkout" -> <<S("checkout"), S("FETCH_HEAD")>>
      [] at = "safeDir" -> <<S("config"), S("--global"), S("--add"), S("safe.directory"), Dir>>
      [] at = "submoduleUpdate" ->
             fetchFlags(src, <<S("submodule"), S("update"), S("--init"), S("--recursive")>>)

GitNext(at) ==
    CASE at = "init" -> "version"
      [] at = "version" -> "color"
      [] at = "color" -> "advice"
      [] at = "advice" -> "gitConfigArgs"
      [] at = "remoteAdd" -> "fetch"
      [] at = "fetch" -> "checkout"
      [] at = "checkout" -> "safeDir"
      [] at = "safeDir" -> IF src.SkipSubmodules = <<>> THEN "submoduleUpdate"
                           ELSE "skipSubmodules"
      [] at = "submoduleUpdate" -> "writeVersion"

GitStatements == {"init", "version", "color", "advice", "remoteAdd", "fetch",
                  "checkout", "safeDir", "submoduleUpdate"}

InGit ==
    /\ pc \in GitStatements
    /\ \E ok \in BOOLEAN : git(Dir, GitArgs(pc), ok, GitNext(pc))
    /\ UNCHANGED <<src, params, rev, brokerVars, nfail, lastOp, prevOp, authRet, cfgRet,
                   calls, cleanups, fetchUrl, fetchRef, configArgs, pending, skipped,
                   written>>

InGitConfigArgs ==
    /\ pc = "gitConfigArgs"
    /\ \E io \in Outcomes(CreateSteps) :
         \E r \in {gitConfigArgs(World, io)} :
         /\ r.w.failed = io
         /\ Becomes(r.w)
         /\ cfgRet' = [args |-> r.args, err |-> r.err]
         /\ IF r.err # Nil
            THEN /\ Return("error getting git config args")
                 /\ UNCHANGED <<configArgs, pending>>
            ELSE /\ configArgs' = r.args
                 /\ pending' = DOMAIN r.args
                 /\ pc' = IF DOMAIN r.args = {} THEN "sparse" ELSE "applyConfig"
                 /\ inErr' = inErr
    /\ lastOp' = "gitConfigArgs"
    /\ prevOp' = lastOp
    /\ calls' = calls + 1
    /\ UNCHANGED <<src, params, rev, authRet, cleanups, cmds, gitErrs, fetchUrl, fetchRef,
                   skipped, written>>

\* a loop over configArgs that stops after its first pass
ConfigLoopBreaks(left, key) == "sparse"

\* where the loop over configArgs goes after the pass for key: on to the next
\* key, or past the loop when key was the last one left
ConfigLoopNext(left, key) == IF left = {key} THEN "sparse" ELSE "applyConfig"

\* one pass of the loop over configArgs; a Go map is ranged over in any order
InApplyConfig ==
    /\ pc = "applyConfig"
    /\ \E key \in pending, ok \in BOOLEAN :
         /\ git(Dir, <<S("config"), S(key), configArgs[key]>>, ok,
                ConfigLoopNext(pending, key))
         /\ pending' = pending \ {key}
    /\ UNCHANGED <<src, params, rev, brokerVars, nfail, lastOp, prevOp, authRet, cfgRet,
                   calls, cleanups, fetchUrl, fetchRef, configArgs, skipped, written>>

InSparse ==
    /\ pc = "sparse"
    /\ IF params.Sparse.isNil
       THEN pc' = "remoteAdd" /\ UNCHANGED <<cmds, gitErrs, inErr>>
       ELSE \E ok \in BOOLEAN :
              git(Dir, <<S("sparse-checkout"), S("set")>> \o params.Sparse.elems, ok,
                  "remoteAdd")
    /\ UNCHANGED <<src, params, rev, brokerVars, nfail, lastOp, prevOp, authRet, cfgRet,
                   calls, cleanups, fetchUrl, fetchRef, configArgs, pending, skipped,
                   written>>

\* a loop over src.SkipSubmodules that stops after its first pass
SkipLoopBreaks(done, total) == "submoduleUpdate"

\* where the loop over src.SkipSubmodules goes after `done` passes: on to the
\* next path, or past the loop to the submodule update
SkipLoopNext(done, total) ==
    IF done = total THEN "submoduleUpdate" ELSE "skipSubmodules"

\* one pass of the loop over src.SkipSubmodules
InSkipSubmodule ==
    /\ pc = "skipSubmodules"
    /\ \E ok \in BOOLEAN :
         git(Dir,
             <<S("config"),
               S("submodule.") \o src.SkipSubmodules[skipped + 1] \o S(".update"),
               S("none")>>,
             ok,
             SkipLoopNext(skipped + 1, Len(src.SkipSubmodules)))
    /\ skipped' = skipped + 1
    /\ UNCHANGED <<src, params, rev, brokerVars, nfail, lastOp, prevOp, authRet, cfgRet,
                   calls, cleanups, fetchUrl, fetchRef, configArgs, pending, written>>

\* os.MkdirAll(dir) when nothing is fetched
InMkdir ==
    /\ pc = "mkdir"
    /\ \E ok \in BOOLEAN :
         IF ok THEN pc' = "writeVersion" /\ inErr' = inErr ELSE Return("mkdir")
    /\ UNCHANGED <<src, params, rev, brokerVars, nfail, lastOp, prevOp, authRet, cfgRet,
                   calls, cleanups, cmds, gitErrs, fetchUrl, fetchRef, configArgs, pending,
                   skipped, written>>

gerritVersionFilename == S(".gerrit_version.json")
gerritPatchsetFilename == S(".gerrit_patchset.json")

\* ver.WriteToFile(gerritVersionPath)
InWriteVersion ==
    /\ pc = "writeVersion"
    /\ \E ok \in BOOLEAN :
         IF ok
         THEN /\ written' = written \cup {gerritVersionFilename}
              /\ pc' = "writePatchset"
              /\ inErr' = inErr
         ELSE Return("error writing version") /\ UNCHANGED written
    /\ UNCHANGED <<src, params, rev, brokerVars, nfail, lastOp, prevOp, authRet, cfgRet,
                   calls, cleanups, cmds, gitErrs, fetchUrl, fetchRef, configArgs, pending,
                   skipped>>

\* The change number is taken from the part of ver.ChangeId after "~": the index
\* panics when there is no "~" and Atoi fails on a non-number.  WriteToFile
\* fails with no file when OpenFile fails ("open"), and with the file created
\* when the encoder's write fails ("write").
InWritePatchset ==
    /\ pc = "writePatchset"
    /\ \E outcome \in {"ok", "panic", "atoi", "open", "write"} :
         /\ written' = IF outcome \in {"ok", "write"}
                       THEN written \cup {gerritPatchsetFilename}
                       ELSE written
         /\ IF outcome = "ok"
            THEN pc' = "exclude" /\ inErr' = inErr
            ELSE Return(outcome)
    /\ UNCHANGED <<src, params, rev, brokerVars, nfail, lastOp, prevOp, authRet, cfgRet,
                   calls, cleanups, cmds, gitErrs, fetchUrl, fetchRef, configArgs, pending,
                   skipped>>

\* filepath.Join(".git", "info", "exclude"), below the target directory
excludePath == S(".git/info/exclude")

\* The entry for the version file is appended to the exclude file.  A failure
\* of MkdirAll or of OpenFile leaves no file from this step, a failure of the
\* Fprintf leaves the file OpenFile created or opened; none is returned: `in`
\* returns err, which is nil here.
InExclude ==
    /\ pc = "exclude"
    /\ \E outcome \in {"ok", "mkdir", "open", "write"} :
         written' = IF outcome \in {"ok", "write"}
                    THEN written \cup {excludePath}
                    ELSE written
    /\ Return(Nil)
    /\ UNCHANGED <<src, params, rev, brokerVars, nfail, lastOp, prevOp, authRet, cfgRet,
                   calls, cleanups, cmds, gitErrs, fetchUrl, fetchRef, configArgs, pending,
                   skipped>>

\* the deferred authMan.cleanup() runs as `in` returns
InReturn ==
    /\ pc = "return"
    /\ \E io \in SUBSET RemoveSteps :
         \E w \in {cleanup(World, io)} :
         /\ w.failed = io
         /\ Becomes(w)
    /\ pc' = "done"
    /\ lastOp' = "cleanup"
    /\ prevOp' = lastOp
    /\ calls' = calls + 1
    /\ cleanups' = cleanups + 1
    /\ UNCHANGED <<src, params, rev, authRet, cfgRet, inErr, cmds, gitErrs, fetchUrl, fetchRef,
                   configArgs, pending, skipped, written>>

\* The requests `in` is run on
InSources ==
    [Cookies : CookiesSet, Username : UsernameSet, Password : PasswordSet,
     DigestAuth : {FALSE}, PrivateKey : PrivateKeySet,
     PrivateKeyPassphrase : {EmptyStr},
     PrivateKeyUser : {EmptyStr}, Fetch : BoolPtrs, FetchProtocol : {""},
     FetchUrl : {EmptyStr, <<"ssh://", "host/repo">>},
     SkipSubmodules : {<<>>, <<S("a"), S("b")>>}, Depth : {0, 2}]

InParamsSet ==
    [Fetch : BoolPtrs, Sparse : {NilStrings, Strings(<<S("/*")>>)}]

FetchInfo(url, ref) == [URL |-> url, Ref |-> ref]

Revisions ==
    {[Ref |-> S("refs/changes/1"), Fetch |-> <<>>],
     [Ref |-> S("refs/changes/1"),
      Fetch |-> [proto \in {"http"} |-> FetchInfo(<<"http://", "host/repo">>,
                                                  S("refs/changes/1/http"))]]}

InitIn ==
    /\ src \in InSources
    /\ params \in InParamsSet
    /\ rev \in Revisions
    /\ pc = "gerritClient"
    /\ inErr = Nil
    /\ cmds = <<>>
    /\ gitErrs = <<>>
    /\ fetchUrl = EmptyStr
    /\ fetchRef = EmptyStr
    /\ configArgs = EmptyArgs
    /\ pending = {}
    /\ skipped = 0
    /\ written = {}
    /\ am = newAuthManager(src)
    /\ disk = <<>>
    /\ nextFile = 1
    /\ agents = {}
    /\ nextPid = 1
    /\ env = <<>>
    /\ produced = {}
    /\ started = {}
    /\ keyed = {}
    /\ rmLog = <<>>
    /\ rmFailed = FALSE
    /\ killLog = <<>>
    /\ failed = {}
    /\ nfail = 0
    /\ lastOp = "newAuthManager"
    /\ prevOp = "none"
    /\ authRet = [auth |-> NilAuth, err |-> Nil]
    /\ cfgRet = [args |-> EmptyArgs, err |-> Nil]
    /\ calls = 0
    /\ cleanups = 0

NextIn ==
    \/ InGerritClient
    \/ InGetRevision
    \/ InResolve
    \/ InGit
    \/ InGitConfigArgs
    \/ InApplyConfig
    \/ InSparse
    \/ InSkipSubmodule
    \/ InMkdir
    \/ InWriteVersion
    \/ InWritePatchset
    \/ InExclude
    \/ InReturn

SpecIn == InitIn /\ [][NextIn]_vars

----------------------------------------------------------------------------
(* resolveFetchUrlRef on its own: one call on any source and revision *)

SshScheme == S("ssh://")

ResolveFetchUrls ==
    {EmptyStr, SshScheme, <<"ssh://", "host/repo">>, <<"http://", "host/repo">>,
     <<"http://", "h/", "ssh://", "x">>, <<"ssh://", "h/", "ssh://", "x">>}

ResolveUsers == {EmptyStr, S("ci")}

ResolveProtocols == {"", "http", "ssh", "git"}

\* the protocols a revision can have fetch info for
RevisionProtocols == {"http", "anonymous http", "ssh"}

ProtocolUrl(proto) ==
    IF proto = "ssh" THEN <<"ssh://", "gerrit/repo">>
    ELSE IF proto = "http" THEN <<"http://", "gerrit/a/repo">>
    ELSE <<"http://", "gerrit/repo">>

ProtocolRef(proto) == <<"refs/changes/1/", proto>>

ResolveSources ==
    [Cookies : {EmptyStr}, Username : {EmptyStr}, Password : {EmptyStr},
     DigestAuth : {FALSE}, PrivateKey : {EmptyStr},
     PrivateKeyPassphrase : {EmptyStr},
     PrivateKeyUser : ResolveUsers, Fetch : {"true"}, FetchProtocol : ResolveProtocols,
     FetchUrl : ResolveFetchUrls, SkipSubmodules : {<<>>}, Depth : {0}]

ResolveRevisions ==
    {[Ref |-> S("refs/changes/1"),
      Fetch |-> [proto \in present |-> FetchInfo(ProtocolUrl(proto), ProtocolRef(proto))]] :
        present \in SUBSET RevisionProtocols}

InitResolve ==
    /\ src \in ResolveSources
    /\ params = [Fetch |-> "nil", Sparse |-> NilStrings]
    /\ rev \in ResolveRevisions
    /\ pc = "resolveFetchUrlRef"
    /\ inErr = Nil
    /\ cmds = <<>>
    /\ gitErrs = <<>>
    /\ fetchUrl = EmptyStr
    /\ fetchRef = EmptyStr
    /\ configArgs = EmptyArgs
    /\ pending = {}
    /\ skipped = 0
    /\ written = {}
    /\ am = newAuthManager(src)
    /\ disk = <<>>
    /\ nextFile = 1
    /\ agents = {}
    /\ nextPid = 1
    /\ env = <<>>
    /\ produced = {}
    /\ started = {}
    /\ keyed = {}
    /\ rmLog = <<>>
    /\ rmFailed = FALSE
    /\ killLog = <<>>
    /\ failed = {}
    /\ nfail = 0
    /\ lastOp = "newAuthManager"
    /\ prevOp = "none"
    /\ authRet = [auth |-> NilAuth, err |-> Nil]
    /\ cfgRet = [args |-> EmptyArgs, err |-> Nil]
    /\ calls = 0
    /\ cleanups = 0

\* url, ref, err := resolveFetchUrlRef(src, rev): the three results are kept
ResolveCall ==
    /\ pc = "resolveFetchUrlRef"
    /\ \E r \in {resolveFetchUrlRef(src, rev)} :
         /\ fetchUrl' = r.url
         /\ fetchRef' = r.ref
         /\ inErr' = r.err
    /\ pc' = "resolved"
    /\ UNCHANGED <<src, params, rev, brokerVars, nfail, lastOp, prevOp, authRet, cfgRet,
                   calls, cleanups, cmds, gitErrs, configArgs, pending, skipped, written>>

NextResolve == ResolveCall

SpecResolve == InitResolve /\ [][NextResolve]_vars

----------------------------------------------------------------------------
(* Properties of the broker *)

CookiesPattern == "concourse-gerrit-cookies"
CredsPattern == "concourse-gerrit-creds"
KeyPattern == "gerrit-resource-private-key-"

\* the temp files of one kind created since construction
FilesOfKind(pattern) == {p \in produced : p[2] = pattern}

\* the variables the agent with this pid published
PublishedVars(pid) ==
    << <<"SSH_AUTH_SOCK", "=", "/tmp/agent.", pid[1]>>, <<"SSH_AGENT_PID", "=", pid[1]>> >>

\* C1: once cleanup() has returned, and no deletion failed, none of the temp
\* files created by the broker's calls exists any more.
C1_NoLeak ==
    (lastOp = "cleanup" /\ ~rmFailed) => \A p \in produced : p \notin DOMAIN disk

\* C4: gerritAuth() looks at the username first (Digest or Basic by the digest
\* flag), then rejects a password without a username, then uses the cookies
\* (a cookie-file mechanism over the recorded cookie file, or the error of
\* creating that file), and otherwise returns NoAuth.
C4_Precedence ==
    lastOp = "gerritAuth" =>
        IF am.username # EmptyStr
        THEN authRet = [auth |-> Auth(IF am.digest THEN "Digest" ELSE "Basic",
                                      am.username, am.password, EmptyStr),
                        err |-> Nil]
        ELSE IF am.password # EmptyStr
        THEN authRet.err # Nil /\ authRet.auth = NilAuth
        ELSE IF am.cookies # EmptyStr
        THEN IF failed = {}
             THEN /\ authRet.err = Nil
                  /\ authRet.auth = Auth("GitCookieFile", EmptyStr, EmptyStr, am.cookiesPath_)
                  /\ am.cookiesPath_ \in FilesOfKind(CookiesPattern)
                  /\ am.cookiesPath_ \in DOMAIN disk
             ELSE authRet.err # Nil /\ authRet.auth = NilAuth
        ELSE authRet = [auth |-> NoAuth, err |-> Nil]

C4_Witness ==
    /\ lastOp = "gerritAuth"
    /\ authRet.auth.kind = "GitCookieFile"
    /\ disk[authRet.auth.path] = am.cookies

\* C5: in every state of the broker, gerritAuth() returns the same mechanism
\* and the same error whatever the ssh private key and its passphrase are.
C5_RestIgnoresSshKey ==
    \A key \in PrivateKeySet, pass \in PassphraseSet, io \in SUBSET CookieSteps :
        LET other == [World EXCEPT !.am.sshPrivateKey = key,
                                   !.am.sshPrivateKeyPassphrase = pass]
            r1 == gerritAuth(World, io)
            r2 == gerritAuth(other, io)
        IN  r1.auth = r2.auth /\ r1.err = r2.err

C5_Witness ==
    /\ lastOp = "gerritAuth"
    /\ am.sshPrivateKey # EmptyStr
    /\ authRet.auth.kind = "Digest"
    /\ started # {}

\* C6: a cleanup() that follows a cleanup() changes nothing: the broker, the
\* files, the live agents and the environment stay as they are, nothing is
\* removed, no kill command runs and no system call fails.
C6_CleanupIdempotent ==
    [][(lastOp = "cleanup" /\ lastOp' = "cleanup" /\ calls' = calls + 1) =>
          /\ am' = am
          /\ disk' = disk
          /\ agents' = agents
          /\ env' = env
          /\ rmLog' = rmLog
          /\ killLog' = killLog
          /\ failed' = {}]_vars

C6_Witness ==
    /\ lastOp = "cleanup"
    /\ prevOp = "cleanup"
    /\ Len(rmLog) = 2
    /\ Len(killLog) = 1

\* C7: before cleanup(), each kind of temp file (cookies, credentials, private
\* key) has been created at most once.
C7_CreatedAtMostOnce ==
    cleanups = 0 =>
        \A pattern \in {CookiesPattern, CredsPattern, KeyPattern} :
            Cardinality(FilesOfKind(pattern)) <= 1

\* C8: before cleanup(), the broker has started at most one ssh agent, and
\* none when no ssh key is configured.
C8_AtMostOneAgent ==
    cleanups = 0 =>
        /\ Cardinality(started) <= 1
        /\ am.sshPrivateKey = EmptyStr => started = {}

\* C9: when cleanup() has returned, the kill command has been run with the
\* variables of every agent the broker started, no variables are recorded and
\* no agent is live; with no agent started no kill command has been run.
C9_AgentKilled ==
    lastOp = "cleanup" =>
        /\ am.sshAgentVars = <<>>
        /\ agents = {}
        /\ \A pid \in started : \E i \in 1..Len(killLog) : killLog[i] = PublishedVars(pid)
        /\ started = {} => killLog = <<>>

\* C10: a failure of a system call of the private-key file, of the start of
\* the agent or of ssh-add makes gitConfigArgs() return an error.
C10_KeyFailureReturned ==
    (lastOp = "gitConfigArgs" /\ failed \cap (FileSteps \cup AgentSteps) # {}
        /\ am.sshPrivateKey # EmptyStr)
    => cfgRet.err # Nil

----------------------------------------------------------------------------
(* Properties of `in` *)

\* execGit was called for `git -C dir <args>`
GitCall(args) == <<S("-C"), Dir>> \o args

IsRemoteAdd(c) == Len(c) >= 4 /\ c[3] = S("remote") /\ c[4] = S("add")
IsFetch(c) == Len(c) >= 3 /\ c[3] = S("fetch")

\* C2: while `in` runs cleanup() has not been executed, and when `in` has
\* returned, with or without an error, cleanup() has been executed exactly
\* once, as the last thing done: after it no git command is issued.
C2_CleanupOnce ==
    /\ pc = "done" => (cleanups = 1 /\ lastOp = "cleanup")
    /\ pc # "done" => cleanups = 0

C2_Witness ==
    /\ pc = "done"
    /\ inErr = "git failed"
    /\ cleanups = 1
    /\ \E i \in 1..Len(cmds) : IsFetch(cmds[i])
    /\ killLog # <<>>

\* C3: when `git remote add` or `git fetch` has been issued, gitConfigArgs()
\* has returned and every key/value pair it returned was given to `git config`
\* earlier.
C3_ConfigBeforeNetwork ==
    \A i \in 1..Len(cmds) :
        (IsRemoteAdd(cmds[i]) \/ IsFetch(cmds[i])) =>
            /\ "gitConfigArgs" \in {lastOp, prevOp}
            /\ cfgRet.err = Nil
            /\ \A key \in DOMAIN cfgRet.args :
                 \E j \in 1..(i - 1) :
                    cmds[j] = GitCall(<<S("config"), S(key), cfgRet.args[key]>>)

C3_Witness ==
    /\ \E i \in 1..Len(cmds) : IsFetch(cmds[i])
    /\ DOMAIN cfgRet.args = {"core.sshCommand", "http.cookieFile"}

----------------------------------------------------------------------------
(* Properties of the credentials file *)

InvalidCharacter == "invalid character in username or password"

\* the username or the password holds a NUL or a newline
HasBadCharacter ==
    \E c \in {NUL, Newline} : Contains(am.username, c) \/ Contains(am.password, c)

\* C11 as stated: whenever the username or the password holds a NUL or a
\* newline, gitConfigArgs() fails with the validation error and no credentials
\* file has been created.
C11_ValidationAlways ==
    (lastOp = "gitConfigArgs" /\ HasBadCharacter) =>
        /\ cfgRet.err = InvalidCharacter
        /\ FilesOfKind(CredsPattern) = {}

\* C11: with no SSH private key and a non-empty username, a NUL or a newline in
\* the username or the password makes gitConfigArgs() fail with the validation
\* error and return no entries; and whatever the other fields are, a broker
\* whose username or password holds such a character never creates or records a
\* credentials file.
C11_Validation ==
    HasBadCharacter =>
        /\ FilesOfKind(CredsPattern) = {}
        /\ (am.sshPrivateKey = EmptyStr => am.credsPath_ = EmptyStr)
        /\ (lastOp = "gitConfigArgs" /\ am.sshPrivateKey = EmptyStr
              /\ am.username # EmptyStr) =>
                cfgRet = [args |-> EmptyArgs, err |-> InvalidCharacter]

C11_Witness ==
    /\ lastOp = "gitConfigArgs"
    /\ am.username = <<"u", Newline>>
    /\ am.password = <<"p">>
    /\ am.sshPrivateKey = EmptyStr
    /\ cfgRet.err = InvalidCharacter
    /\ disk = <<>>

\* C12: when a system call of the first gerritAuth() or gitConfigArgs() of a
\* broker has failed (creating, protecting or writing a temp file, starting the
\* agent, adding the key), every file that call created is recorded in the
\* broker, so that cleanup() will remove it.
C12_CreatedIsRecorded ==
    (lastOp \in {"gerritAuth", "gitConfigArgs"} /\ prevOp = "newAuthManager"
      /\ failed # {}) =>
        \A p \in DOMAIN disk : p \in {am.cookiesPath_, am.credsPath_}

\* the file a credential.helper entry reads
HelperFile(args) == Tail(args["credential.helper"])

\* the value Basic(username, password) that gerritAuth() returns
BasicOf(username, password) ==
    [auth |-> Auth("Basic", username, password, EmptyStr), err |-> Nil]

\* C17 as stated: with a username and digest off, gerritAuth() returns
\* Basic(username, password), and, no system call of the broker having failed,
\* gitConfigArgs() returns a credential.helper entry whose file holds exactly
\* "username=<username>" and "password=<password>", each followed by a newline.
C17_BasicAlways ==
    (am.username # EmptyStr /\ ~am.digest) =>
        /\ lastOp = "gerritAuth" => authRet = BasicOf(am.username, am.password)
        /\ (lastOp = "gitConfigArgs" /\ nfail = 0) =>
             /\ "credential.helper" \in DOMAIN cfgRet.args
             /\ HelperFile(cfgRet.args) \in DOMAIN disk
             /\ disk[HelperFile(cfgRet.args)] =
                    <<"username", "=">> \o am.username \o <<Newline>>
                    \o <<"password", "=">> \o am.password \o <<Newline>>

\* C17: with a username and digest off, gerritAuth() returns
\* Basic(username, password); and when moreover no SSH private key is set,
\* neither field holds a NUL or a newline and no system call of the broker has
\* failed, gitConfigArgs() returns a credential.helper entry "!cat <file>" for
\* the recorded credentials file, which holds exactly "username=<username>"
\* and "password=<password>", each followed by a newline.
C17_Basic ==
    (am.username # EmptyStr /\ ~am.digest) =>
        /\ lastOp = "gerritAuth" => authRet = BasicOf(am.username, am.password)
        /\ (lastOp = "gitConfigArgs" /\ am.sshPrivateKey = EmptyStr
              /\ ~HasBadCharacter /\ nfail = 0) =>
             /\ cfgRet.err = Nil
             /\ "credential.helper" \in DOMAIN cfgRet.args
             /\ cfgRet.args["credential.helper"] = <<"!cat ">> \o am.credsPath_
             /\ am.credsPath_ \in FilesOfKind(CredsPattern)
             /\ am.credsPath_ \in DOMAIN disk
             /\ disk[am.credsPath_] =
                    <<"username", "=">> \o am.username \o <<Newline>>
                    \o <<"password", "=">> \o am.password \o <<Newline>>

C17_Witness ==
    /\ lastOp = "gitConfigArgs"
    /\ prevOp = "gerritAuth"
    /\ ~am.digest
    /\ authRet = BasicOf(<<"u">>, <<"p">>)
    /\ "credential.helper" \in DOMAIN cfgRet.args
    /\ disk[HelperFile(cfgRet.args)] =
           <<"username", "=", "u", "\n", "password", "=", "p", "\n">>

----------------------------------------------------------------------------
(* Properties of the cookie file *)

CookiesOnly ==
    /\ am.cookies # EmptyStr
    /\ am.username = EmptyStr
    /\ am.password = EmptyStr
    /\ am.sshPrivateKey = EmptyStr

\* C18: with cookies and no username, password or private key, and as long as
\* no system call of the broker has failed: gitConfigArgs() returns exactly
\* one entry, http.cookieFile, naming a file that holds the cookies text;
\* gerritAuth() returns the cookie-file mechanism over the recorded cookie
\* file; and when the two are called one after the other, in either order,
\* both name the same file and only one cookie file has been created.
C18_CookiesOnly ==
    (CookiesOnly /\ nfail = 0) =>
        /\ lastOp = "gitConfigArgs" =>
             /\ cfgRet.err = Nil
             /\ DOMAIN cfgRet.args = {"http.cookieFile"}
             /\ cfgRet.args["http.cookieFile"] = am.cookiesPath_
             /\ am.cookiesPath_ \in DOMAIN disk
             /\ disk[am.cookiesPath_] = am.cookies
        /\ lastOp = "gerritAuth" =>
             /\ authRet = [auth |-> Auth("GitCookieFile", EmptyStr, EmptyStr,
                                         am.cookiesPath_),
                           err |-> Nil]
             /\ am.cookiesPath_ \in DOMAIN disk
             /\ disk[am.cookiesPath_] = am.cookies
        /\ {lastOp, prevOp} = {"gerritAuth", "gitConfigArgs"} =>
             /\ authRet.auth.path = cfgRet.args["http.cookieFile"]
             /\ (cleanups = 0 => Cardinality(FilesOfKind(CookiesPattern)) = 1)

C18_Witness ==
    /\ CookiesOnly
    /\ lastOp = "gerritAuth"
    /\ prevOp = "gitConfigArgs"
    /\ DOMAIN cfgRet.args = {"http.cookieFile"}
    /\ authRet.auth.kind = "GitCookieFile"
    /\ authRet.auth.path = cfgRet.args["http.cookieFile"]
    /\ disk[authRet.auth.path] = <<"c">>

----------------------------------------------------------------------------
(* Properties of resolveFetchUrlRef *)

NotSshUrl == "FetchUrl is not an ssh url"

NoFetchInfo(proto) == "no fetch info for protocol " \o proto

\* C13: for a fetch url "ssh://" + rest and a non-empty PrivateKeyUser the
\* call returns, with no error, "ssh://" + user + "@" + rest and the
\* revision's own ref.
C13_SshUserInserted ==
    (pc = "resolved" /\ src.PrivateKeyUser # EmptyStr
      /\ HasPrefix(src.FetchUrl, SshScheme)) =>
        /\ fetchUrl = SshScheme \o src.PrivateKeyUser \o S("@") \o Tail(src.FetchUrl)
        /\ fetchRef = rev.Ref
        /\ inErr = Nil

C13_Witness ==
    /\ pc = "resolved"
    /\ src.PrivateKeyUser = S("ci")
    /\ src.FetchUrl = <<"ssh://", "host/repo">>
    /\ fetchUrl = <<"ssh://", "ci", "@", "host/repo">>
    /\ inErr = Nil

\* C14: with PrivateKeyUser set and a fetch url that does not start with
\* "ssh://" (the empty url too) the call fails with the not-an-ssh-url error
\* and returns no url and no ref, whatever the requested protocol and the
\* revision's fetch info are.
C14_SshUserNeedsSshUrl ==
    (pc = "resolved" /\ src.PrivateKeyUser # EmptyStr
      /\ (src.FetchUrl = EmptyStr \/ Head(src.FetchUrl) # "ssh://")) =>
        /\ inErr = NotSshUrl
        /\ fetchUrl = EmptyStr
        /\ fetchRef = EmptyStr

C14_Witness ==
    /\ pc = "resolved"
    /\ src.PrivateKeyUser = S("ci")
    /\ src.FetchUrl = EmptyStr
    /\ src.FetchProtocol = "ssh"
    /\ "ssh" \in DOMAIN rev.Fetch
    /\ inErr = NotSshUrl

\* C15: with no fetch url, no requested protocol and no PrivateKeyUser, the
\* call returns the url and the ref of the revision's "http" entry when there
\* is one, and otherwise those of its "anonymous http" entry when there is one.
C15_DefaultProtocols ==
    (pc = "resolved" /\ src.FetchUrl = EmptyStr /\ src.FetchProtocol = ""
      /\ src.PrivateKeyUser = EmptyStr) =>
        IF "http" \in DOMAIN rev.Fetch
        THEN /\ fetchUrl = rev.Fetch["http"].URL
             /\ fetchRef = rev.Fetch["http"].Ref
             /\ inErr = Nil
        ELSE "anonymous http" \in DOMAIN rev.Fetch =>
             /\ fetchUrl = rev.Fetch["anonymous http"].URL
             /\ fetchRef = rev.Fetch["anonymous http"].Ref
             /\ inErr = Nil

C15_Witness ==
    /\ pc = "resolved"
    /\ src.FetchUrl = EmptyStr
    /\ src.FetchProtocol = ""
    /\ src.PrivateKeyUser = EmptyStr
    /\ DOMAIN rev.Fetch = {"anonymous http", "ssh"}
    /\ fetchUrl = ProtocolUrl("anonymous http")
    /\ fetchRef = ProtocolRef("anonymous http")
    /\ fetchRef # rev.Ref

\* C16 as stated: with no fetch url and a requested protocol the revision has
\* no entry for, the call fails with the error that names the protocol.
C16_MissingProtocolAlways ==
    (pc = "resolved" /\ src.FetchUrl = EmptyStr /\ src.FetchProtocol # ""
      /\ src.FetchProtocol \notin DOMAIN rev.Fetch) =>
        inErr = NoFetchInfo(src.FetchProtocol)

\* C16: with no fetch url and no PrivateKeyUser, a requested protocol the
\* revision has no entry for makes the call fail with the error that names
\* that protocol, and no url is returned, also when the revision has an "http"
\* or an "anonymous http" entry.
C16_MissingProtocol ==
    (pc = "resolved" /\ src.FetchUrl = EmptyStr /\ src.PrivateKeyUser = EmptyStr
      /\ src.FetchProtocol # "" /\ src.FetchProtocol \notin DOMAIN rev.Fetch) =>
        /\ inErr = NoFetchInfo(src.FetchProtocol)
        /\ fetchUrl = EmptyStr

C16_Witness ==
    /\ pc = "resolved"
    /\ src.FetchUrl = EmptyStr
    /\ src.PrivateKeyUser = EmptyStr
    /\ src.FetchProtocol = "git"
    /\ {"http", "anonymous http"} \subseteq DOMAIN rev.Fetch
    /\ inErr = "no fetch info for protocol git"

\* C19: with a fetch url and no PrivateKeyUser the call returns that url
\* unchanged, the revision's own ref and no error, whatever protocol is
\* requested and whether or not the revision has an entry for it.
C19_FetchUrlOverrides ==
    (pc = "resolved" /\ src.FetchUrl # EmptyStr /\ src.PrivateKeyUser = EmptyStr) =>
        /\ fetchUrl = src.FetchUrl
        /\ fetchRef = rev.Ref
        /\ inErr = Nil

C19_Witness ==
    /\ pc = "resolved"
    /\ src.FetchUrl = <<"http://", "host/repo">>
    /\ src.PrivateKeyUser = EmptyStr
    /\ src.FetchProtocol = "ssh"
    /\ "ssh" \in DOMAIN rev.Fetch
    /\ fetchUrl = <<"http://", "host/repo">>
    /\ fetchRef = rev.Ref
    /\ inErr = Nil

----------------------------------------------------------------------------
(* Properties of the submodule steps of `in` *)

IsSubmoduleUpdate(c) == Len(c) >= 4 /\ c[3] = S("submodule") /\ c[4] = S("update")

\* `git config submodule.<m>.update none`
SkipCall(m) == GitCall(<<S("config"), S("submodule.") \o m \o S(".update"), S("none")>>)

\* C20: when `git submodule update --init --recursive` is issued, then for
\* every path of src.SkipSubmodules `git config submodule.<path>.update none`
\* was issued earlier, and `in` went on after it, so it had succeeded.
C20_SkipBeforeUpdate ==
    \A i \in 1..Len(cmds) :
        IsSubmoduleUpdate(cmds[i]) =>
            \A k \in 1..Len(src.SkipSubmodules) :
                \E j \in 1..(i - 1) : cmds[j] = SkipCall(src.SkipSubmodules[k])

C20_Witness ==
    /\ src.SkipSubmodules = <<S("a"), S("b")>>
    /\ pc = "writeVersion"
    /\ inErr = Nil
    /\ Len(cmds) >= 3
    /\ IsSubmoduleUpdate(cmds[Len(cmds)])
    /\ cmds[Len(cmds) - 1] = SkipCall(S("b"))
    /\ cmds[Len(cmds) - 2] = SkipCall(S("a"))

----------------------------------------------------------------------------
(* Properties of the fetch switch of `in` *)

\* the value of a *bool that is not nil
Deref(ptr) == ptr = "true"

\* the `fetch` parameter when given, else the source setting, else false
EffectiveFetch ==
    IF params.Fetch # "nil" THEN Deref(params.Fetch)
    ELSE IF src.Fetch # "nil" THEN Deref(src.Fetch)
    ELSE FALSE

\* C21: `in` takes the fetch branch exactly when the `fetch` parameter, or
\* without it the source's `fetch` setting, is true.  When it is not, no git
\* command is ever issued, resolveFetchUrlRef and gitConfigArgs() are never
\* called and the directory is made instead; when it is, the directory is
\* not made that way and an `in` that gets to writing the version file has
\* issued git commands.
C21_FetchSwitch ==
    /\ ~EffectiveFetch =>
         /\ cmds = <<>>
         /\ "gitConfigArgs" \notin {lastOp, prevOp}
         /\ cfgRet = [args |-> EmptyArgs, err |-> Nil]
         /\ fetchUrl = EmptyStr
         /\ pc \in {"gerritClient", "getRevision", "mkdir", "writeVersion",
                     "writePatchset", "exclude", "return", "done"}
    /\ EffectiveFetch => pc # "mkdir"
    /\ (EffectiveFetch /\ pc = "writeVersion") =>
         \E i \in 1..Len(cmds) : IsSubmoduleUpdate(cmds[i])

C21_Witness ==
    /\ params.Fetch = "false"
    /\ src.Fetch = "true"
    /\ pc = "done"
    /\ inErr = Nil
    /\ cmds = <<>>
    /\ written # {}

----------------------------------------------------------------------------
(* Properties of the entries gitConfigArgs() returns *)

\* C22: when gitConfigArgs() has returned without error, the map has the key
\* core.sshCommand exactly when a private key is set, credential.helper
\* exactly when no private key and a username are set, http.cookieFile exactly
\* when cookies are set, and no other key; so never both core.sshCommand and
\* credential.helper.
C22_EntriesIff ==
    (lastOp = "gitConfigArgs" /\ cfgRet.err = Nil) =>
        /\ "core.sshCommand" \in DOMAIN cfgRet.args <=> am.sshPrivateKey # EmptyStr
        /\ "credential.helper" \in DOMAIN cfgRet.args <=>
               (am.sshPrivateKey = EmptyStr /\ am.username # EmptyStr)
        /\ "http.cookieFile" \in DOMAIN cfgRet.args <=> am.cookies # EmptyStr
        /\ DOMAIN cfgRet.args \subseteq
               {"core.sshCommand", "credential.helper", "http.cookieFile"}
        /\ ~({"core.sshCommand", "credential.helper"} \subseteq DOMAIN cfgRet.args)

C22_Witness ==
    /\ lastOp = "gitConfigArgs"
    /\ cfgRet.err = Nil
    /\ am.sshPrivateKey # EmptyStr
    /\ am.username # EmptyStr
    /\ am.cookies # EmptyStr
    /\ DOMAIN cfgRet.args = {"core.sshCommand", "http.cookieFile"}

\* the argument at position i of a command line is this path
NamesPathAt(command, i, path) ==
    i + Len(path) - 1 <= Len(command) /\ SubSeq(command, i, i + Len(path) - 1) = path

\* C23: when a private key is set and gitConfigArgs() has returned without
\* error, the key is in a file whose path is recorded in the broker, and the
\* core.sshCommand entry names that file and has -F /dev/null.
C23_KeyFileNamed ==
    (lastOp = "gitConfigArgs" /\ cfgRet.err = Nil /\ am.sshPrivateKey # EmptyStr) =>
        /\ am.credsPath_ \in FilesOfKind(KeyPattern)
        /\ am.credsPath_ \in DOMAIN disk
        /\ disk[am.credsPath_] = am.sshPrivateKey
        /\ "core.sshCommand" \in DOMAIN cfgRet.args
        /\ Contains(cfgRet.args["core.sshCommand"], " -F /dev/null")
        /\ \E i \in 1..Len(cfgRet.args["core.sshCommand"]) :
              NamesPathAt(cfgRet.args["core.sshCommand"], i, am.credsPath_)

----------------------------------------------------------------------------
(* Properties of cleanup() when a removal fails *)

\* the removals attempted by the step
NewRemovals == {rmLog'[i] : i \in (Len(rmLog) + 1)..Len(rmLog')}

\* C24: every cleanup(), whichever of its removals fail, attempts to remove the
\* recorded cookies file and the recorded credentials or key file, runs the
\* kill command with the recorded agent variables, leaves both paths and the
\* agent variables cleared, and changes no value a caller was returned.
C24_CleanupGoesOn ==
    [][(lastOp' = "cleanup" /\ calls' = calls + 1) =>
          /\ am.cookiesPath_ # EmptyStr => am.cookiesPath_ \in NewRemovals
          /\ am.credsPath_ # EmptyStr => am.credsPath_ \in NewRemovals
          /\ am.sshAgentVars # <<>> => killLog' = Append(killLog, am.sshAgentVars)
          /\ am'.cookiesPath_ = EmptyStr
          /\ am'.credsPath_ = EmptyStr
          /\ am'.sshAgentVars = <<>>
          /\ authRet' = authRet
          /\ cfgRet' = cfgRet]_vars

C24_Witness ==
    /\ lastOp = "cleanup"
    /\ prevOp = "gitConfigArgs"
    /\ failed = {"remove-cookies"}
    /\ Len(rmLog) = 2
    /\ Len(killLog) = 1
    /\ \E p \in FilesOfKind(CookiesPattern) : p \in DOMAIN disk
    /\ FilesOfKind(KeyPattern) \cap DOMAIN disk = {}
    /\ am.cookiesPath_ = EmptyStr
    /\ am.credsPath_ = EmptyStr
    /\ am.sshAgentVars = <<>>

----------------------------------------------------------------------------
(* Properties of the depth flag *)

IsDepthFlag(arg) == Len(arg) > 0 /\ arg[1] = "--depth="

DepthFlags(c) == {k \in 1..Len(c) : IsDepthFlag(c[k])}

\* C25: every `git fetch` and every `git submodule update` that is issued has,
\* when src.Depth is N > 0, exactly one depth flag, "--depth=" followed by the
\* decimal digits of N, and has no depth flag when src.Depth is 0.
C25_DepthFlag ==
    \A i \in 1..Len(cmds) :
        (IsFetch(cmds[i]) \/ IsSubmoduleUpdate(cmds[i])) =>
            IF src.Depth > 0
            THEN /\ Cardinality(DepthFlags(cmds[i])) = 1
                 /\ \A k \in DepthFlags(cmds[i]) :
                       cmds[i][k] = <<"--depth=", NumStr(src.Depth)>>
            ELSE DepthFlags(cmds[i]) = {}

C25_Witness ==
    /\ src.Depth = 2
    /\ Len(cmds) >= 1
    /\ IsSubmoduleUpdate(cmds[Len(cmds)])
    /\ cmds[Len(cmds)][Len(cmds[Len(cmds)])] = <<"--depth=", "2">>
    /\ \E i \in 1..Len(cmds) :
          IsFetch(cmds[i]) /\ cmds[i][Len(cmds[i])] = <<"--depth=", "2">>

----------------------------------------------------------------------------
(* Properties of `in` when a git command fails *)

\* C26: a git command that failed is the last one `in` has issued: from then
\* on `in` is returning or has returned, the error it returns is that failure,
\* and no file has been written into the target directory.
C26_StopsOnGitFailure ==
    /\ Len(gitErrs) = Len(cmds)
    /\ \A i \in 1..Len(gitErrs) :
         gitErrs[i] # Nil =>
            /\ i = Len(cmds)
            /\ pc \in {"return", "done"}
            /\ inErr = gitErrs[i]
            /\ written = {}

C26_Witness ==
    /\ pc = "done"
    /\ Len(cmds) >= 2
    /\ IsFetch(cmds[Len(cmds)])
    /\ gitErrs[Len(gitErrs)] = "git failed"
    /\ gitErrs[Len(gitErrs) - 1] = Nil
    /\ inErr = "git failed"
    /\ written = {}

----------------------------------------------------------------------------
(* Properties of the url `in` fetches from *)

FetchUrlsNonEmpty == \A proto \in DOMAIN rev.Fetch : rev.Fetch[proto].URL # EmptyStr

\* C27: when no url of the revision's fetch info is empty, a call that returns
\* no error returns a non-empty url; and with no fetch url, no requested
\* protocol and neither an "http" nor an "anonymous http" entry the call
\* returns an error and no url.
C27_UrlNonEmpty ==
    (pc = "resolved" /\ FetchUrlsNonEmpty) =>
        /\ inErr = Nil => fetchUrl # EmptyStr
        /\ (src.FetchUrl = EmptyStr /\ src.FetchProtocol = ""
              /\ DOMAIN rev.Fetch \cap {"http", "anonymous http"} = {}) =>
                (inErr # Nil /\ fetchUrl = EmptyStr)

C27_Witness ==
    /\ pc = "resolved"
    /\ src.FetchUrl = EmptyStr
    /\ src.FetchProtocol = ""
    /\ src.PrivateKeyUser = EmptyStr
    /\ DOMAIN rev.Fetch = {"ssh"}
    /\ inErr = "no fetch info for protocol "
    /\ fetchUrl = EmptyStr

\* In `in`, where a failed resolveFetchUrlRef returns before `git init`:
\* `git remote add origin <url>` is only issued with a non-empty url.
RemoteAddHasUrl ==
    \A i \in 1..Len(cmds) :
        IsRemoteAdd(cmds[i]) => cmds[i][Len(cmds[i])] # EmptyStr

====
